---- MODULE Spec2Model ----
(***************************************************************************)
(* Model of ProteinCartography/map_refseqids.py: the identifier-mapping    *)
(* orchestrator (read input, one mapping job per source database, poll,    *)
(* fetch, aggregate, write the unique accessions).                         *)
(*                                                                         *)
(* Text (file contents, identifiers, accessions, the comma-joined query)   *)
(* is a sequence of one-character strings.  JSON objects are records, a    *)
(* missing key is a missing field.  A DataFrame is a record of its column  *)
(* names and its rows.                                                     *)
(***************************************************************************)
EXTENDS Integers, Sequences, FiniteSets, TLC

\* ------------------------------------------------------------------ bounds
MaxFileLen == 4       \* characters in the input file
MaxDbs == 2           \* configured source databases
MaxBudget == 11       \* largest value REQUESTS_LIMIT is reassigned to
BatchCap == 2         \* the 100000 of the bioservices backend, scaled down

\* ------------------------------------------------------- program constants
REQUESTS_TRIES == 0
REQUESTS_LIMIT == 10
TimeoutTries == 10    \* the literal of `if tries == 10`

DEFAULT_DBS == <<"EMBL-GenBank-DDBJ_CDS", "RefSeq_Protein">>
REQUESTS_HEADER == [UserAgent |-> "ProteinCartography/0.4 (Arcadia Science) python-requests/2.0.1"]
NoHeaders == [UserAgent |-> "python-requests default"]

NL == "\n"
Comma == ","
Chars == {"a", NL}                  \* alphabet of the input file
\* what the service knows: (identifier, accession) pairs, the same for every database
KnownPairs == {<<(<<"a">>), (<<"X">>)>>, <<(<<"a">>), (<<"Y">>)>>}

\* ------------------------------------------------------------ text helpers
SeqsUpTo(S, n) == UNION {[1..k -> S] : k \in 0..n}

Range(s) == {s[k] : k \in DOMAIN s}

\* all orders in which the elements of a set can be listed
Perms(S) == {p \in [1..Cardinality(S) -> S] : Range(p) = S}

\* sequences of distinct elements of S
DistinctSeqs(S) == {s \in SeqsUpTo(S, Cardinality(S)) : Cardinality(Range(s)) = Len(s)}

RECURSIVE SplitFrom(_, _, _, _)
SplitFrom(text, sep, k, cur) ==
    IF k > Len(text) THEN <<cur>>
    ELSE IF text[k] = sep THEN <<cur>> \o SplitFrom(text, sep, k + 1, <<>>)
    ELSE SplitFrom(text, sep, k + 1, Append(cur, text[k]))

\* str.splitlines(): no trailing empty line after a final line terminator
splitlines(text) ==
    LET parts == SplitFrom(text, NL, 1, <<>>)
    IN  IF parts[Len(parts)] = <<>> THEN SubSeq(parts, 1, Len(parts) - 1) ELSE parts

RECURSIVE join(_, _)
join(sep, items) ==
    IF items = <<>> THEN <<>>
    ELSE IF Len(items) = 1 THEN items[1]
    ELSE items[1] \o <<sep>> \o join(sep, Tail(items))

\* the identifiers the service reads out of the `ids` form field
QueryIds(ids) == IF ids = <<>> THEN {} ELSE Range(SplitFrom(ids, Comma, 1, <<>>)) \ {<<>>}

\* ------------------------------------------------------------- data frames
EmptyFrame == [columns |-> {}, rows |-> <<>>]

\* pd.DataFrame(list of dicts)
DataFrame(rows) ==
    [columns |-> UNION {DOMAIN rows[k] : k \in DOMAIN rows}, rows |-> rows]

\* pd.json_normalize(list of dicts): nested keys become dotted columns
Flatten(row) ==
    ("from" :> row["from"]) @@ ("to.primaryAccession" :> row["to"]["primaryAccession"])

json_normalize(rows) == DataFrame([k \in DOMAIN rows |-> Flatten(rows[k])])

\* pd.concat([a, b], axis=0)
concat(a, b) == [columns |-> a.columns \cup b.columns, rows |-> a.rows \o b.rows]

Column(df, c) == [k \in DOMAIN df.rows |-> df.rows[k][c]]

\* Series.unique(): values in order of first occurrence
unique(s) ==
    LET first == {k \in 1..Len(s) : \A j \in 1..(k - 1) : s[j] # s[k]}
        rank(k) == Cardinality({j \in first : j <= k})
    IN  [r \in 1..Cardinality(first) |-> s[CHOOSE k \in first : rank(k) = r]]

\* hits written without the line terminator
RECURSIVE writelinesBare(_)
writelinesBare(hs) == IF hs = <<>> THEN <<>> ELSE hs[1] \o writelinesBare(Tail(hs))

\* f.writelines(hit + "\n" for hit in hits)
RECURSIVE writelines(_)
writelines(hs) == IF hs = <<>> THEN <<>> ELSE hs[1] \o <<NL>> \o writelines(Tail(hs))

\* ------------------------------------------------------------------- state
VARIABLES
    service,          \* args.service: which backend main() dispatches to
    input_file,       \* content of the input file
    output_file,      \* the destination file: [exists, data]
    old_output,       \* history: the destination file before the run
    query_dbs,        \* args.databases
    requests_limit,   \* the module global REQUESTS_LIMIT at the time of the run
    pc,               \* position of the run
    input_ids,        \* input_ids (rest) / ids (bioservices)
    input_string,     \* the comma-joined query
    i,                \* index of the database being processed, from 0
    ticket,           \* JSON answer to the submission
    repeat, tries, limit,
    status,           \* JSON answer to the last status poll
    results_df, dummy_df, hits,
    exit_code,        \* process exit status, -1 while running
    request,          \* history: the last request sent to the mapping service
    posts,            \* history: submissions sent in the run
    polls, sleeps, streams,   \* history: polls, sleeps, stream requests of the current job
    mapping_results   \* history: the decoded result rows of each database, in loop order

vars == <<service, input_file, output_file, old_output, query_dbs, requests_limit, pc,
          input_ids, input_string, i, ticket, repeat, tries, limit, status,
          results_df, dummy_df, hits, exit_code, request, posts, polls, sleeps,
          streams, mapping_results>>

inputVars == <<service, input_file, old_output, query_dbs, requests_limit>>
jobVars == <<ticket, repeat, tries, limit, status>>
countVars == <<posts, polls, sleeps, streams>>

\* ------------------------------------------------------ the mapping service
NoRequest == [method |-> "NONE", path |-> "", job |-> 0, ids |-> <<>>, from |-> "",
              headers |-> NoHeaders]
NoTicket == [none |-> TRUE]
NoStatus == [none |-> TRUE]
NoFile == [exists |-> FALSE, data |-> <<>>]
StaleFile == [exists |-> TRUE, data |-> <<"O", NL>>]

\* POST /run answers with a job identifier, or with an error body that has none
TicketAnswers(n) == {[jobId |-> n], [messages |-> "rejected"]}

\* GET /status/{jobId}: still running, results available, or a failed job
StatusRunning == [jobStatus |-> "RUNNING"]
StatusReady == [results |-> "available"]
StatusFailed == [jobStatus |-> "FAILED"]
StatusAnswers == {StatusRunning, StatusReady, StatusFailed}

\* the known pairs of the queried identifiers
Hits(ids) == {p \in KnownPairs : p[1] \in QueryIds(ids)}

\* GET /stream/{jobId} of a finished job: some of the hits, in some order, none twice
StreamRows(ids) == DistinctSeqs({[from |-> p[1], to |-> p[2]] : p \in Hits(ids)})

\* ... of a job that is not finished: an error body, or what is there so far
StreamAnswers(ids, ready) ==
    {[results |-> r] : r \in StreamRows(ids)}
        \cup (IF ready THEN {} ELSE {[messages |-> "not finished"]})

\* UniProt().mapping(): the same pairs, the target as a nested object
MappingRows(ids) ==
    DistinctSeqs({[from |-> p[1], to |-> [primaryAccession |-> p[2]]] : p \in Hits(ids)})

\* ---------------------------------------------------------------- start-up
\* the k-th configured database: the defaults first
DbName(k) == IF k <= Len(DEFAULT_DBS) THEN DEFAULT_DBS[k] ELSE "Ensembl_Protein"

InitRun(files, budgets) ==
    /\ service \in {"rest", "bioservices"}
    /\ input_file \in files
    /\ output_file \in {NoFile, StaleFile}
    /\ old_output = output_file
    /\ query_dbs \in {[k \in 1..n |-> DbName(k)] : n \in 1..MaxDbs}
    /\ requests_limit \in budgets
    /\ pc = "read"
    /\ input_ids = <<>>
    /\ input_string = <<>>
    /\ i = 0
    /\ ticket = NoTicket
    /\ repeat = TRUE
    /\ tries = REQUESTS_TRIES
    /\ limit = requests_limit
    /\ status = NoStatus
    /\ results_df = EmptyFrame
    /\ dummy_df = EmptyFrame
    /\ hits = <<>>
    /\ exit_code = -1
    /\ request = NoRequest
    /\ posts = 0
    /\ polls = 0
    /\ sleeps = 0
    /\ streams = 0
    /\ mapping_results = <<>>

Init == InitRun(SeqsUpTo(Chars, MaxFileLen), {REQUESTS_LIMIT})

\* the attempt budget set by the caller before the run, a file of one character
InitBudget == InitRun(SeqsUpTo(Chars, 1), 1..MaxBudget)

\* input files of up to BatchCap + 1 lines, each a non-empty identifier
BatchIds == {<<"a">>, <<"a", "a">>, <<"a", "a", "a">>}
BatchFiles == {join(NL, lines) : lines \in SeqsUpTo(BatchIds, BatchCap + 1)}

InitBatch == InitRun(BatchFiles, {REQUESTS_LIMIT})

\* an uncaught exception ends the process with a traceback and status 1
Crash ==
    /\ pc' = "crashed"
    /\ exit_code' = 1

\* ------------------------------------------------------------ rest backend
\* list(set(input_lines)): the distinct lines, in an order the hash seed picks
DistinctLines(lines) == Perms(Range(lines))

\* lines 135-140: read the file, deduplicate, join
ReadInputRest ==
    /\ pc = "read"
    /\ service = "rest"
    /\ \E ids \in DistinctLines(splitlines(input_file)) :
          /\ input_ids' = ids
          /\ input_string' = join(Comma, ids)
    /\ dummy_df' = EmptyFrame
    /\ i' = 0
    /\ pc' = "post"
    /\ UNCHANGED <<inputVars, output_file, jobVars, results_df, hits, exit_code,
                   request, countVars, mapping_results>>

\* the submission request of lines 143-147
RunRequest(db) ==
    [method |-> "POST", path |-> "run", job |-> 0, ids |-> input_string, from |-> db,
     headers |-> REQUESTS_HEADER]

\* a submission that is sent again when the service rejects it
SubmitRetrying ==
    /\ pc = "post"
    /\ request' = RunRequest(query_dbs[i + 1])
    /\ posts' = posts + 1
    /\ ticket' \in TicketAnswers(posts + 1)
    /\ repeat' = TRUE
    /\ tries' = REQUESTS_TRIES
    /\ limit' = requests_limit
    /\ polls' = 0
    /\ sleeps' = 0
    /\ streams' = 0
    /\ pc' = IF "jobId" \in DOMAIN ticket' THEN "while" ELSE "post"
    /\ UNCHANGED <<inputVars, output_file, input_ids, input_string, i, status,
                   results_df, dummy_df, hits, exit_code, mapping_results>>

\* lines 142-153: submit the job of query_dbs[i], reset the poll loop's variables
Submit ==
    /\ pc = "post"
    /\ request' = RunRequest(query_dbs[i + 1])
    /\ posts' = posts + 1
    /\ ticket' \in TicketAnswers(posts + 1)
    /\ repeat' = TRUE
    /\ tries' = REQUESTS_TRIES
    /\ limit' = requests_limit
    /\ polls' = 0
    /\ sleeps' = 0
    /\ streams' = 0
    /\ pc' = "while"
    /\ UNCHANGED <<inputVars, output_file, input_ids, input_string, i, status,
                   results_df, dummy_df, hits, exit_code, mapping_results>>

\* a loop condition without the attempt budget
LoopConditionUnbounded == repeat

\* line 154: the loop condition
LoopCondition == repeat /\ tries < limit

\* a status request that names the job submitted before this one
StatusRequestStale(job) ==
    [method |-> "GET", path |-> "status", job |-> IF job > 1 THEN job - 1 ELSE job,
     ids |-> <<>>, from |-> "", headers |-> REQUESTS_HEADER]

\* the status request of lines 155-158
StatusRequest(job) ==
    [method |-> "GET", path |-> "status", job |-> job, ids |-> <<>>, from |-> "",
     headers |-> REQUESTS_HEADER]

\* the marker test inverted
RepeatInverted(payload) == "results" \in DOMAIN payload

\* line 163: does the loop go on after this status payload
Repeat(payload) == "results" \notin DOMAIN payload

\* lines 154-163: one iteration of the poll loop: the status request (ticket["jobId"]
\* raises KeyError on a rejection), the sleep, the attempt counter, the marker test
PollStatus ==
    /\ pc = "while"
    /\ LoopCondition
    /\ IF "jobId" \in DOMAIN ticket
       THEN /\ request' = StatusRequest(ticket["jobId"])
            /\ polls' = polls + 1
            /\ status' \in StatusAnswers
            /\ sleeps' = sleeps + 1
            /\ tries' = tries + 1
            /\ repeat' = Repeat(status')
            /\ UNCHANGED <<pc, exit_code>>
       ELSE /\ Crash
            /\ UNCHANGED <<request, polls, status, sleeps, tries, repeat>>
    /\ UNCHANGED <<inputVars, output_file, input_ids, input_string, i, ticket, limit,
                   results_df, dummy_df, hits, posts, streams, mapping_results>>

\* a timeout test that is off by one
TimedOutPastLimit(n) == n > TimeoutTries

\* line 165: the test that decides the job timed out
TimedOut(n) == n = TimeoutTries

\* lines 154, 165-168: leave the loop; sys.exit(message) on a timeout
CheckTimeout ==
    /\ pc = "while"
    /\ ~LoopCondition
    /\ IF TimedOut(tries)
       THEN /\ pc' = "exit"
            /\ exit_code' = 1
       ELSE /\ pc' = "stream"
            /\ UNCHANGED exit_code
    /\ UNCHANGED <<inputVars, output_file, input_ids, input_string, i, jobVars,
                   results_df, dummy_df, hits, request, countVars, mapping_results>>

\* the result request of line 170: no headers argument
StreamRequest(job) ==
    [method |-> "GET", path |-> "stream", job |-> job, ids |-> <<>>, from |-> "",
     headers |-> NoHeaders]

\* lines 170-171: fetch and decode the results; results["results"] raises KeyError
\* on an error body
FetchResults ==
    /\ pc = "stream"
    /\ request' = StreamRequest(ticket["jobId"])
    /\ streams' = streams + 1
    /\ \E results \in StreamAnswers(input_string, ~repeat) :
          IF "results" \in DOMAIN results
          THEN /\ results_df' = DataFrame(results["results"])
               /\ mapping_results' = Append(mapping_results, results["results"])
               /\ pc' = "merge"
               /\ UNCHANGED exit_code
          ELSE /\ Crash
               /\ UNCHANGED <<results_df, mapping_results>>
    /\ UNCHANGED <<inputVars, output_file, input_ids, input_string, i, jobVars,
                   dummy_df, hits, posts, polls, sleeps>>

\* ------------------------------------------------- aggregation and output
\* a merge that keeps only the latest non-empty result
MergedReplacing(idx, dummy, res) ==
    IF Len(res.rows) = 0 THEN dummy ELSE res

\* lines 173-182 (and 92-101): skip an empty result, else replace or append
Merged(idx, dummy, res) ==
    IF Len(res.rows) = 0 THEN dummy
    ELSE IF idx = 0 THEN res
    ELSE concat(dummy, res)

\* lines 173-182 and the loop header: fold the results in, go to the next database
Merge ==
    /\ pc = "merge"
    /\ dummy_df' = Merged(i, dummy_df, results_df)
    /\ IF i + 1 < Len(query_dbs)
       THEN /\ i' = i + 1
            /\ pc' = IF service = "rest" THEN "post" ELSE "mapping"
       ELSE /\ pc' = "hits"
            /\ UNCHANGED i
    /\ UNCHANGED <<inputVars, output_file, input_ids, input_string, jobVars, results_df,
                   hits, exit_code, request, countVars, mapping_results>>

\* the column of lines 185 and 104
HitsColumn == IF service = "rest" THEN "to" ELSE "to.primaryAccession"

\* lines 184-185 (and 103-104): the unique accessions; KeyError on a frame without
\* the column
ExtractHits ==
    /\ pc = "hits"
    /\ IF HitsColumn \in dummy_df.columns
       THEN /\ hits' = unique(Column(dummy_df, HitsColumn))
            /\ pc' = "write"
            /\ UNCHANGED exit_code
       ELSE /\ Crash
            /\ UNCHANGED hits
    /\ UNCHANGED <<inputVars, output_file, input_ids, input_string, i, jobVars,
                   results_df, dummy_df, request, countVars, mapping_results>>

\* lines 187-189 (and 106-108): open(output_file, "w+") and write one hit per line
WriteOutput ==
    /\ pc = "write"
    /\ output_file' = [exists |-> TRUE, data |-> writelines(hits)]
    /\ pc' = "done"
    /\ exit_code' = 0
    /\ UNCHANGED <<inputVars, input_ids, input_string, i, jobVars, results_df, dummy_df,
                   hits, request, countVars, mapping_results>>

\* ----------------------------------------------------- bioservices backend
\* lines 78-79
Truncated(ids) == IF Len(ids) > BatchCap THEN SubSeq(ids, 1, BatchCap) ELSE ids

\* lines 74-82: read the file, cap the batch
ReadInputBio ==
    /\ pc = "read"
    /\ service = "bioservices"
    /\ input_ids' = Truncated(splitlines(input_file))
    /\ input_string' = join(Comma, input_ids')
    /\ dummy_df' = EmptyFrame
    /\ i' = 0
    /\ pc' = "mapping"
    /\ UNCHANGED <<inputVars, output_file, jobVars, results_df, hits, exit_code,
                   request, countVars, mapping_results>>

\* the library call of line 87
MappingRequest(db) ==
    [method |-> "MAPPING", path |-> "", job |-> 0, ids |-> join(Comma, input_ids),
     from |-> db, headers |-> NoHeaders]

\* lines 85-90: u.mapping() submits, waits and fetches; normalise its results
MappingBio ==
    /\ pc = "mapping"
    /\ request' = MappingRequest(query_dbs[i + 1])
    /\ posts' = posts + 1
    /\ \E rows \in MappingRows(input_string) :
          /\ results_df' = json_normalize(rows)
          /\ mapping_results' = Append(mapping_results, rows)
    /\ pc' = "merge"
    /\ UNCHANGED <<inputVars, output_file, input_ids, input_string, i, jobVars,
                   dummy_df, hits, exit_code, polls, sleeps, streams>>

\* ------------------------------------------------------------ specification
Next ==
    \/ ReadInputRest
    \/ Submit
    \/ PollStatus
    \/ CheckTimeout
    \/ FetchResults
    \/ Merge
    \/ ExtractHits
    \/ WriteOutput
    \/ ReadInputBio
    \/ MappingBio

Spec == Init /\ [][Next]_vars

SpecBudget == InitBudget /\ [][Next]_vars

SpecBatch == InitBatch /\ [][Next]_vars

\* ------------------------------------------------- vocabulary of the claims
Terminal == pc \in {"done", "exit", "crashed"}

Accepted == "jobId" \in DOMAIN ticket
Rejected == "messages" \in DOMAIN ticket

\* the poll loop of the current job is over
LoopOver == service = "rest" /\ Accepted /\ ~(pc = "while" /\ LoopCondition)

\* every configured database's result has been fetched
AllFetched == Len(mapping_results) = Len(query_dbs)

\* the canonical accession of a result row as the service sent it
Accession(row) == IF service = "rest" THEN row["to"] ELSE row["to"]["primaryAccession"]

Accessions(rows) == {Accession(rows[k]) : k \in DOMAIN rows}

RECURSIVE ConcatAll(_)
ConcatAll(ss) == IF ss = <<>> THEN <<>> ELSE ss[1] \o ConcatAll(Tail(ss))

RECURSIVE SumLen(_)
SumLen(ss) == IF ss = <<>> THEN 0 ELSE Len(ss[1]) + SumLen(Tail(ss))

\* C1: for every attempt budget L >= 1, when the status endpoint never signalled
\* readiness and the budget is used up, exactly L polls were made, the job is timed
\* out (the run is at the timeout test or has exited) and no result was requested.
C1_TimedOutAtEveryBudget ==
    (LoopOver /\ repeat /\ tries >= requests_limit)
        => /\ polls = requests_limit
           /\ pc \in {"while", "exit"}
           /\ streams = 0

\* C2: once a status poll within the budget, the last permitted one included, shows
\* the results marker, the job is not reported as timed out.
C2_ReadyIsNeverTimedOut ==
    (LoopOver /\ ~repeat /\ polls <= requests_limit) => pc # "exit"

\* identifiers were submitted
Queried == QueryIds(input_string) # {}

\* C3: a run that submitted identifiers and fetched the result of every configured
\* database, whichever of them were empty, does not abort.
C3_EmptyResultsNeverAbort ==
    (Queried /\ AllFetched) => pc # "crashed"

\* C4: when a run in which every job completed has ended, the destination file
\* holds exactly the accessions of all results, each one once.
C4_OutputIsExactlyTheAccessions ==
    (service = "rest" /\ Queried /\ Terminal /\ AllFetched)
        => /\ output_file.exists
           /\ Range(splitlines(output_file.data)) = Accessions(ConcatAll(mapping_results))
           /\ Len(splitlines(output_file.data)) = Cardinality(Range(splitlines(output_file.data)))

\* the rows of a result as the backend decodes them into a frame
Decoded(rows) == IF service = "rest" THEN rows ELSE [k \in DOMAIN rows |-> Flatten(rows[k])]

\* the results already folded into the aggregate: all fetched ones, but for the one
\* waiting at the merge
Folded ==
    IF pc = "merge" THEN SubSeq(mapping_results, 1, Len(mapping_results) - 1)
    ELSE mapping_results

\* C5: at every point the aggregate table is the concatenation, in configured order,
\* of the results folded in so far: its row count is the sum of their sizes, and no
\* row is dropped, duplicated or moved, duplicate accessions included.
C5_AggregateIsConcatenation ==
    /\ dummy_df.rows = ConcatAll([k \in DOMAIN Folded |-> Decoded(Folded[k])])
    /\ Len(dummy_df.rows) = SumLen(Folded)

\* C5 witness: the loop is over, the first database was empty, the second gave two
\* rows.
C5_Witness ==
    /\ pc = "hits"
    /\ Len(mapping_results) = 2
    /\ mapping_results[1] = <<>>
    /\ Len(mapping_results[2]) = 2
    /\ Len(dummy_df.rows) = 2

\* C5 witness of duplicates: two databases return the same pair, both rows are kept
C5_WitnessDuplicates ==
    /\ pc = "hits"
    /\ Len(mapping_results) = 2
    /\ Len(mapping_results[1]) = 2
    /\ mapping_results[2] = mapping_results[1]
    /\ Len(dummy_df.rows) = 4

\* C6: once the input is read, the identifiers to submit hold no duplicate and no
\* empty string, and there are as many as distinct non-empty input lines.
C6_QuerySetIsNormalized ==
    pc # "read"
        => /\ Cardinality(Range(input_ids)) = Len(input_ids)
           /\ <<>> \notin Range(input_ids)
           /\ Len(input_ids) = Cardinality(Range(splitlines(input_file)) \ {<<>>})

\* C7: after a status response that reports a failed job, no further status poll is
\* issued for the job and the run does not end as a timeout.
C7_FailedStopsPolling ==
    [][(pc = "while" /\ status = StatusFailed) => (polls' = polls /\ pc' # "exit")]_vars

\* C8: every request the rest backend sends (POST /run, GET /status, GET /stream)
\* carries the fixed user-agent header.
C8_EveryRequestIdentifies ==
    request.method \in {"POST", "GET"} => request.headers = REQUESTS_HEADER

\* C9: a job whose budget ran out without the marker makes the run exit at once with
\* a non-zero status; at the exit the destination file is as it was before the run,
\* only the databases up to the timed-out one were submitted, the last request is
\* that job's last status poll, its result was never requested, and nothing follows.
C9_TimeoutAbortsRun ==
    /\ [][(pc = "while" /\ Accepted /\ repeat /\ tries >= limit)
             => (pc' = "exit" /\ exit_code' = 1 /\ output_file' = output_file
                 /\ request' = request /\ posts' = posts)]_vars
    /\ [](pc = "exit"
             => /\ exit_code # 0
                /\ output_file = old_output
                /\ posts = i + 1
                /\ request = StatusRequest(ticket["jobId"])
                /\ streams = 0
                /\ Len(mapping_results) = i)
    /\ [][pc = "exit" => UNCHANGED vars]_vars

\* C9 witness: the second database timed out without ever being ready, after the
\* first one gave rows; the destination file still holds its old content.
C9_Witness ==
    /\ pc = "exit"
    /\ repeat
    /\ i = 1
    /\ Len(mapping_results) = 1
    /\ mapping_results[1] # <<>>
    /\ output_file = StaleFile

\* C10: when a run that submitted identifiers has ended and the submission of the
\* database it was at was rejected, every configured database has been submitted and all the others have
\* had their results fetched.
C10_RejectionIsIsolated ==
    (Queried /\ Terminal /\ Rejected)
        => /\ posts = Len(query_dbs)
           /\ Len(mapping_results) = Len(query_dbs) - 1

\* C11: one submission per database reached, none repeated; after a rejected
\* submission the run stops with the submission as the last request sent: no
\* status poll and no result request for that database.
C11_SubmitOnceFailAtOnce ==
    /\ posts = (IF pc \in {"read", "post", "mapping"} THEN i ELSE i + 1)
    /\ Rejected
          => /\ pc \in {"while", "crashed"}
             /\ request = RunRequest(query_dbs[i + 1])
             /\ polls = 0
             /\ streams = 0

\* C11 witness: the second database's submission was rejected after the first was
\* fetched, and the run has ended.
C11_Witness ==
    /\ Rejected
    /\ pc = "crashed"
    /\ i = 1
    /\ posts = 2
    /\ Len(mapping_results) = 1

\* C12: after a successful run the destination file exists and is the hits, one per
\* line, each line ended by a newline, nothing else (no header, nothing of the old
\* content); reading the file back line by line gives the hits again, which are
\* the accessions of all results, none twice.
C12_FileRoundTrip ==
    pc = "done"
        => /\ output_file.exists
           /\ splitlines(output_file.data) = hits
           /\ Len(output_file.data) = SumLen(hits) + Len(hits)
           /\ output_file.data # <<>> => output_file.data[Len(output_file.data)] = NL
           /\ Cardinality(Range(hits)) = Len(hits)
           /\ Range(hits) = Accessions(ConcatAll(mapping_results))

\* C12 witness: a run over a destination file with old content wrote two accessions.
C12_Witness ==
    /\ pc = "done"
    /\ old_output = StaleFile
    /\ Len(hits) = 2

\* the entries of the comma-joined list a submission carries
BatchOf(req) == IF req.ids = <<>> THEN <<>> ELSE SplitFrom(req.ids, Comma, 1, <<>>)

\* C13: with either backend no submission carries more identifiers than the cap.
C13_BatchWithinCap ==
    request.method \in {"POST", "MAPPING"} => Len(BatchOf(request)) <= BatchCap

\* the identifiers each backend submits for a file, as a set
RestIds(file) == Range(splitlines(file))
BioIds(file) == Range(Truncated(splitlines(file)))

\* C14: the identifiers a run submits are, as a set, those the other backend
\* submits for the same input file.
C14_BackendsSubmitTheSame ==
    request.method \in {"POST", "MAPPING"}
        => Range(BatchOf(request))
              = (IF service = "rest" THEN BioIds(input_file) ELSE RestIds(input_file))

\* the last status answer of the current job showed the results marker
Ready == "results" \in DOMAIN status

\* C15: at most one job is submitted and not yet fetched at any time, and a
\* submission for a later database is sent only when the job before it was polled
\* until the marker showed, had its result requested once and its rows fetched.
C15_StrictlySequential ==
    /\ [](posts - Len(mapping_results) \in {0, 1})
    /\ [][(service = "rest" /\ posts' = posts + 1 /\ posts > 0)
             => (Accepted /\ Ready /\ ~repeat /\ polls >= 1 /\ streams = 1
                 /\ Len(mapping_results) = posts)]_vars

\* C15 witness: the second database's job is submitted, the first one's rows are in.
C15_Witness ==
    /\ service = "rest"
    /\ pc = "while"
    /\ i = 1
    /\ posts = 2
    /\ Accepted
    /\ Len(mapping_results) = 1

\* C16: when the poll loop ended on a status answer with the results marker, the
\* job slept only after the answers without it: one sleep fewer than polls, none
\* for a job ready on its first poll.
C16_NoSleepAfterReady ==
    (LoopOver /\ Ready /\ ~repeat) => sleeps = polls - 1

\* an upper bound on the steps the run can still take: the databases not yet
\* started, each worth a submission, a full budget of polls, the timeout test, the
\* fetch and the merge, then the steps left for the current one and for the output
StepsLeft ==
    LET n == Len(query_dbs)
        per == requests_limit + 5
        within == CASE pc \in {"post", "mapping"} -> requests_limit + 4
                    [] pc = "while" -> (requests_limit - tries) + 3
                    [] pc = "stream" -> 2
                    [] OTHER -> 1
    IN  CASE pc = "read" -> (n + 1) * per
          [] pc \in {"post", "mapping", "while", "stream", "merge"}
                -> (n - i - 1) * per + within + 3
          [] pc = "hits" -> 2
          [] pc = "write" -> 1
          [] OTHER -> 0

\* C17: every accepted job whose poll loop is over got at least one status poll, no
\* job ever gets more than the attempt budget, and every run ends by writing the
\* output, exiting or aborting: a run that has not ended can take a step, and every
\* step lowers a bound on the steps left, so neither the poll loop nor the run can
\* go on forever.
C17_BoundedPollsAndTermination ==
    /\ [](polls <= requests_limit)
    /\ [](LoopOver => polls >= 1)
    /\ [](StepsLeft \in Nat /\ (StepsLeft = 0 <=> Terminal))
    /\ [](~Terminal => ENABLED Next)
    /\ [][StepsLeft' < StepsLeft]_vars

\* C17 witness: a run of two databases ended with the output written, the second
\* job having become ready one poll before the budget ran out.
C17_Witness ==
    /\ service = "rest"
    /\ pc = "done"
    /\ i = 1
    /\ polls = REQUESTS_LIMIT - 1

\* C18: every status poll and result request names the job identifier the current
\* database's submission returned, which no earlier submission returned; the
\* attempt counter counts the polls of the current job only, and each submission
\* sets it to zero.
C18_RequestsNameCurrentJob ==
    /\ [](request.method = "GET"
            => Accepted /\ request.job = ticket["jobId"] /\ ticket["jobId"] = posts)
    /\ []((service = "rest" /\ Accepted) => tries = polls)
    /\ [][posts' = posts + 1 => (tries' = 0 /\ polls' = 0)]_vars

\* C18 witness: the second database's result is requested under the second job's
\* identifier, after three polls of that job.
C18_Witness ==
    /\ i = 1
    /\ request = StreamRequest(2)
    /\ ticket = [jobId |-> 2]
    /\ tries = 3

====
